---- MODULE Spec2Model ----
(***************************************************************************)
(* Model of the Predator registration service, src/service/               *)
(* predator_server.py: module startup, the single-threaded HTTPServer,    *)
(* PredatorHandler.do_GET / do_POST and predator_infer (dataset + loader, *)
(* forward pass, score combination, weighted subsampling of the source    *)
(* and target clouds, pose solver call, packaging of the result).         *)
(*                                                                         *)
(* Abstractions.  A point is an integer tag (its coordinates are never    *)
(* inspected by the code modelled here); a feature vector is a tag as     *)
(* well.  A score is an integer: 0 and 1 are the ends of the valid range  *)
(* [0,1], -1 lies outside it.  A probability is kept as the pair          *)
(* numerator / denominator that the division in the code produces, so a   *)
(* zero denominator is the NaN of the code.  numpy indices are 0-based,   *)
(* TLA+ sequences 1-based: index i of the code reads element i + 1.       *)
(***************************************************************************)
EXTENDS Integers, Sequences, FiniteSets, TLC

\* Largest number of points in one cloud of a request.
MaxN == 3
\* Largest configured sample size config.n_points.
MaxK == 3
\* The iteration budget of the pose solver.
MaxIter == 2
\* The retry count of the pose solver for degenerate minimal subsets.
MaxRetry == 1

VARIABLES
    phase,            \* "startup" | "serving": module level position
    config,           \* the process-wide config (edict)
    pc,               \* position of the handler of the current request
    method,           \* "GET" | "POST" | "none"
    data,             \* json.loads(body): the request's src / tgt entries
    inputs,           \* the collated batch: points[0] and stack_lengths[0]
    feats,            \* model output: one feature per stacked point
    scores_overlap,   \* model output: one overlap score per stacked point
    scores_saliency,  \* model output: one saliency score per stacked point
    src_raw, tgt_raw, \* clones of the two clouds before sampling
    src_pcd, tgt_pcd, \* the clouds handed on (sampled or not)
    src_feats, tgt_feats,
    src_scores, tgt_scores,
    idx,              \* the local idx of predator_infer
    probs,            \* the local probs of predator_infer
    ransac_args,      \* arguments of the call of ransac_pose_estimation
    tsfm,             \* what ransac_pose_estimation returned
    result,           \* what predator_infer returned
    sent,             \* responses written to the connection of this request
    error,            \* the exception that ended the handler, if any
    calls             \* external components invoked for this request, in order

\* The pose solver, lib.benchmark_utils.ransac_pose_estimation: its state
\* machine Init -> Iterating -> {Converged, Exhausted}.
VARIABLES
    solver_state,     \* "idle" | "Init" | "Iterating" | "Converged" | "Exhausted"
    n_corr,           \* size of the correspondence set
    iteration,        \* iterations of the budget used up
    retries,          \* degenerate subsets drawn again
    best_inliers,     \* inlier count of the best candidate so far
    usable            \* some minimal subset was usable (a candidate was fitted)

\* The visualizer, src/web_pointcloud_visualizer.py: load_test_results and
\* the page's script.
VARIABLES
    vpc,              \* position of main() / of the page
    files,            \* the sorted *.pth files of benchmark_path, or NoDir
    max_samples,      \* argument of load_test_results
    loop_i,           \* the loop variable i of load_test_results
    results,          \* self.results
    returned,         \* what load_test_results returned
    escaped,          \* an exception left load_test_results
    samples,          \* the page's samples
    currentSample,    \* the page's currentSample
    scene,            \* the two clouds drawn in the scene
    draws,            \* calls of displaySample so far
    clicks,           \* button clicks so far
    last_click        \* "none" | "next" | "prev"

serverVars == <<phase, config, pc, method, data, inputs, feats, scores_overlap,
          scores_saliency, src_raw, tgt_raw, src_pcd, tgt_pcd, src_feats,
          tgt_feats, src_scores, tgt_scores, idx, probs, ransac_args, tsfm,
          result,
          sent, error, calls>>

solverVars == <<solver_state, n_corr, iteration, retries, best_inliers,
                usable>>

vizVars == <<vpc, files, max_samples, loop_i, results, returned, escaped,
             samples, currentSample, scene, draws, clicks, last_click>>

vars == <<serverVars, solverVars, vizVars>>

\* the locals of predator_infer
inferVars == <<inputs, feats, scores_overlap, scores_saliency, src_raw,
               tgt_raw, src_pcd, tgt_pcd, src_feats, tgt_feats, src_scores,
               tgt_scores, idx, probs, ransac_args, tsfm, result>>

----------------------------------------------------------------------------
(* Values *)

Unset == [kind |-> "unset"]
None == [kind |-> "None"]
NoError == [type |-> "none", at |-> "none", msg |-> "none"]
Raise(type, at, msg) == [type |-> type, at |-> at, msg |-> msg]

\* config.n_points as the yaml file may set it (no check is made on it)
NPointsValues == (0 - 1) .. MaxK

\* The clouds a client may post: point tags 101.. for src, 201.. for tgt.
SrcCloud(n) == [i \in 1..n |-> 100 + i]
TgtCloud(n) == [i \in 1..n |-> 200 + i]
Absent == [present |-> FALSE, points |-> <<>>]
Present(points) == [present |-> TRUE, points |-> points]
SrcEntries == {Absent} \cup {Present(SrcCloud(n)) : n \in 0..MaxN}
TgtEntries == {Absent} \cup {Present(TgtCloud(n)) : n \in 0..MaxN}

\* (overlap, saliency) pairs the feature model may give a point.
ScorePairs == {<<1, 1>>, <<1, 0>>, <<0 - 1, 1>>}

\* What ransac_pose_estimation may hand back: None, or an array / tensor.
Matrix(r, c) == [i \in 1..r |-> [j \in 1..c |-> IF i = j THEN 1 ELSE 0]]
SolverReturns ==
    {None, [kind |-> "ndarray", data |-> Matrix(4, 4)],
           [kind |-> "Tensor", data |-> Matrix(4, 4)],
           [kind |-> "ndarray", data |-> Matrix(3, 4)]}

----------------------------------------------------------------------------
(* Python / numpy helpers *)

RECURSIVE SeqSum(_)
SeqSum(s) == IF s = <<>> THEN 0 ELSE s[1] + SeqSum(Tail(s))

\* s[:n] and s[n:] for 0 <= n
SliceTo(s, n) == SubSeq(s, 1, IF n < Len(s) THEN n ELSE Len(s))
SliceFrom(s, n) == SubSeq(s, n + 1, Len(s))

\* a * b on two equally long 1-D tensors
Mul(a, b) == [i \in 1..Len(a) |-> a[i] * b[i]]

\* x[idx]: fancy indexing by a 0-based index array
Take(x, ix) == [j \in 1..Len(ix) |-> x[ix[j] + 1]]


----------------------------------------------------------------------------
(* np.random.choice(idx, size=config.n_points, replace=False, p=probs) *)

\* probs = scores / scores.sum(): numerators over one denominator
Probs(scores) == [num |-> scores, den |-> SeqSum(scores)]

IsNaN(p) == p.den = 0
Negative(p, i) == p.num[i] * p.den < 0
Positive(p, i) == p.num[i] * p.den > 0

\* The checks numpy makes, in its order; "none" when the draw goes ahead.
ChoiceError(p, size) ==
    IF IsNaN(p) THEN "probabilities contain NaN"
    ELSE IF \E i \in 1..Len(p.num) : Negative(p, i)
        THEN "probabilities are not non-negative"
    ELSE IF size > Len(p.num)
        THEN "Cannot take a larger sample than population"
    ELSE IF size < 0 THEN "negative dimensions are not allowed"
    ELSE IF Cardinality({i \in 1..Len(p.num) : Positive(p, i)}) < size
        THEN "Fewer non-zero entries in p than size"
    ELSE "none"

\* The arrays a successful draw can return: size distinct 0-based indices of
\* positive probability, in any order.
ChoiceOutcomes(p, size) ==
    LET support == {i - 1 : i \in {k \in 1..Len(p.num) : Positive(p, k)}}
    IN  {ix \in [1..size -> support] :
            \A a, b \in 1..size : a # b => ix[a] # ix[b]}

----------------------------------------------------------------------------
(* predator_infer *)

\* The batch the loader hands over: both clouds stacked, and their lengths.
Collate(src_points, tgt_points) ==
    [points |-> src_points \o tgt_points,
     stack_lengths |-> <<Len(src_points), Len(tgt_points)>>]

\* ThreeDMatchDemo.__getitem__ indexes src_pcd[:, :1]: an empty list became a
\* 1-D array of shape (0,), and the 2-D index raises.
GetItemRaises(src_points, tgt_points) ==
    Len(src_points) = 0 \/ Len(tgt_points) = 0

\* The feature the model computes for a point.
FeatureOf(p) == 1000 + p

\* if pcd.size(0) > config.n_points
NeedsSamplingAtEqual(n, n_points) == n >= n_points
NeedsSampling(n, n_points) == n > n_points

\* pcd = pcd[idx]; feats = feats[idx]
SubsampleFeatsByPrefix(pcd, fts, ix) ==
    [pcd |-> Take(pcd, ix), feats |-> SubSeq(fts, 1, Len(ix))]
Subsample(pcd, fts, ix) == [pcd |-> Take(pcd, ix), feats |-> Take(fts, ix)]

\* step 6: None stays None, anything else goes through numpy and tolist()
PackageEmptyOnNone(t) ==
    [transform |-> [kind |-> "list", data |-> IF t = None THEN <<>> ELSE t.data]]
Package(t) ==
    IF t = None THEN [transform |-> None]
    ELSE [transform |-> [kind |-> "list", data |-> t.data]]

----------------------------------------------------------------------------
(* json.dumps, as a sequence of tokens *)

RECURSIVE JsonJoin(_)
JsonJoin(items) ==
    IF items = <<>> THEN <<>>
    ELSE IF Len(items) = 1 THEN items[1]
    ELSE items[1] \o <<",">> \o JsonJoin(Tail(items))

JsonList(items) == <<"[">> \o JsonJoin(items) \o <<"]">>

JsonValue(v) ==
    IF v = None THEN <<"null">>
    ELSE JsonList([i \in 1..Len(v.data) |->
            JsonList([j \in 1..Len(v.data[i]) |-> <<ToString(v.data[i][j])>>])])

json_dumps(r) == <<"{", "\"transform\"", ":">> \o JsonValue(r.transform) \o <<"}">>

JsonResponse(body) ==
    [status |-> 200, ctype |-> "application/json;charset=utf-8", body |-> body]
TextResponse(msg) ==
    [status |-> 200, ctype |-> "text/plain;charset=utf-8", body |-> <<msg>>]


----------------------------------------------------------------------------
(* State machine *)


ServerInit ==
    /\ phase = "startup"
    /\ config = Unset
    /\ pc = "idle"
    /\ method = "none"
    /\ data = Unset
    /\ inputs = Unset
    /\ feats = <<>>
    /\ scores_overlap = <<>>
    /\ scores_saliency = <<>>
    /\ src_raw = <<>>
    /\ tgt_raw = <<>>
    /\ src_pcd = <<>>
    /\ tgt_pcd = <<>>
    /\ src_feats = <<>>
    /\ tgt_feats = <<>>
    /\ src_scores = <<>>
    /\ tgt_scores = <<>>
    /\ idx = <<>>
    /\ probs = Unset
    /\ ransac_args = Unset
    /\ tsfm = Unset
    /\ result = Unset
    /\ sent = <<>>
    /\ error = NoError
    /\ calls = <<>>

\* No solver call is in progress.
SolverIdle ==
    /\ solver_state = "idle"
    /\ n_corr = 0
    /\ iteration = 0
    /\ retries = 0
    /\ best_inliers = 0
    /\ usable = FALSE

\* The visualizer is not run.
VisualizerAbsent ==
    /\ vpc = "absent"
    /\ files = [dir |-> FALSE, listing |-> <<>>]
    /\ max_samples = 0
    /\ loop_i = 0
    /\ results = <<>>
    /\ returned = Unset
    /\ escaped = FALSE
    /\ samples = <<>>
    /\ currentSample = 0
    /\ scene = Unset
    /\ draws = 0
    /\ clicks = 0
    /\ last_click = "none"

\* The service after construction.
Init == ServerInit /\ SolverIdle /\ VisualizerAbsent

\* a startup that serves before neighborhood_limits is computed
StartupWithoutLimits ==
    /\ phase = "startup"
    /\ \E k \in NPointsValues, cuda_is_available \in BOOLEAN :
        config' = [n_points |-> k,
                   device |-> IF cuda_is_available THEN "cuda" ELSE "cpu",
                   model |-> "KPFCNN.eval",
                   neighborhood_limits |-> "unset"]
    /\ phase' = "serving"
    /\ UNCHANGED <<pc, method, data, inferVars, sent, error, calls>>
    /\ UNCHANGED <<solverVars, vizVars>>

\* Module level, lines 24-65 and 232-234: the config is loaded and completed,
\* then the server is created and serve_forever() entered.
Startup ==
    /\ phase = "startup"
    /\ \E k \in NPointsValues, cuda_is_available \in BOOLEAN :
        config' = [n_points |-> k,
                   device |-> IF cuda_is_available THEN "cuda" ELSE "cpu",
                   model |-> "KPFCNN.eval",
                   neighborhood_limits |-> "calibrated"]
    /\ phase' = "serving"
    /\ UNCHANGED <<pc, method, data, inferVars, sent, error, calls>>
    /\ UNCHANGED <<solverVars, vizVars>>

\* An exception leaves do_POST: socketserver's handle_error prints it and the
\* connection is closed with nothing written.
Fail(type, at, msg) ==
    /\ error' = Raise(type, at, msg)
    /\ pc' = "done"

do_GET ==
    /\ phase = "serving"
    /\ pc = "idle"
    /\ method' = "GET"
    /\ sent' = Append(sent, TextResponse("Predator point cloud registration service"))
    /\ pc' = "done"
    /\ UNCHANGED <<phase, config, data, inferVars, error, calls>>
    /\ UNCHANGED <<solverVars, vizVars>>

\* do_POST of a server that takes a request while another is being handled
do_POST_threaded ==
    /\ phase = "serving"
    /\ pc # "done"
    /\ method' = "POST"
    /\ \E s \in SrcEntries, t \in TgtEntries :
        /\ data' = [src |-> s, tgt |-> t]
        /\ IF ~s.present THEN Fail("KeyError", "do_POST", "src")
           ELSE IF ~t.present THEN Fail("KeyError", "do_POST", "tgt")
           ELSE pc' = "infer_load" /\ error' = error
    /\ UNCHANGED <<phase, config, inferVars, sent, calls>>
    /\ UNCHANGED <<solverVars, vizVars>>

\* do_POST, lines 209-216: read and parse the body, take data["src"] and
\* data["tgt"].
do_POST ==
    /\ phase = "serving"
    /\ pc = "idle"
    /\ method' = "POST"
    /\ \E s \in SrcEntries, t \in TgtEntries :
        /\ data' = [src |-> s, tgt |-> t]
        /\ IF ~s.present THEN Fail("KeyError", "do_POST", "src")
           ELSE IF ~t.present THEN Fail("KeyError", "do_POST", "tgt")
           ELSE pc' = "infer_load" /\ error' = error
    /\ UNCHANGED <<phase, config, inferVars, sent, calls>>
    /\ UNCHANGED <<solverVars, vizVars>>

\* predator_infer, lines 117-134: dataset, loader, first batch, move to device.
infer_load ==
    /\ pc = "infer_load"
    /\ IF GetItemRaises(data.src.points, data.tgt.points)
       THEN /\ Fail("IndexError", "__getitem__", "too many indices for array")
            /\ inputs' = inputs
       ELSE /\ inputs' = Collate(data.src.points, data.tgt.points)
            /\ pc' = "infer_forward"
            /\ error' = error
    /\ UNCHANGED <<phase, config, method, data, feats, scores_overlap,
                   scores_saliency, src_raw, tgt_raw, src_pcd, tgt_pcd,
                   src_feats, tgt_feats, src_scores, tgt_scores, idx, probs,
                   ransac_args, tsfm, result, sent, calls>>
    /\ UNCHANGED <<solverVars, vizVars>>

\* predator_infer, lines 137-158: forward pass, split of the stacked outputs
\* into the two clouds, overlap * saliency.
infer_forward ==
    /\ pc = "infer_forward"
    /\ LET pcd == inputs.points
           len_src == inputs.stack_lengths[1]
       IN \E sc \in [1..Len(pcd) -> ScorePairs] :
            LET f == [j \in 1..Len(pcd) |-> FeatureOf(pcd[j])]
                ov == [j \in 1..Len(pcd) |-> sc[j][1]]
                sa == [j \in 1..Len(pcd) |-> sc[j][2]]
            IN  /\ feats' = f
                /\ scores_overlap' = ov
                /\ scores_saliency' = sa
                /\ src_pcd' = SliceTo(pcd, len_src)
                /\ tgt_pcd' = SliceFrom(pcd, len_src)
                /\ src_raw' = SliceTo(pcd, len_src)
                /\ tgt_raw' = SliceFrom(pcd, len_src)
                /\ src_feats' = SliceTo(f, len_src)
                /\ tgt_feats' = SliceFrom(f, len_src)
                /\ src_scores' = Mul(SliceTo(ov, len_src), SliceTo(sa, len_src))
                /\ tgt_scores' = Mul(SliceFrom(ov, len_src), SliceFrom(sa, len_src))
    /\ calls' = Append(calls, "model")
    /\ pc' = "sample_src"
    /\ UNCHANGED <<phase, config, method, data, inputs, idx, probs,
                   ransac_args, tsfm,
                   result, sent, error>>
    /\ UNCHANGED <<solverVars, vizVars>>

\* predator_infer, lines 160-165
sample_src ==
    /\ pc = "sample_src"
    /\ IF NeedsSampling(Len(src_pcd), config.n_points)
       THEN LET p == Probs(src_scores)
                err == ChoiceError(p, config.n_points)
            IN  /\ probs' = p
                /\ calls' = Append(calls, "choice_src")
                /\ IF err # "none"
                   THEN /\ Fail("ValueError", "sample_src", err)
                        /\ UNCHANGED <<idx, src_pcd, src_feats>>
                   ELSE \E ix \in ChoiceOutcomes(p, config.n_points) :
                        /\ idx' = ix
                        /\ src_pcd' = Subsample(src_pcd, src_feats, ix).pcd
                        /\ src_feats' = Subsample(src_pcd, src_feats, ix).feats
                        /\ pc' = "sample_tgt"
                        /\ error' = error
       ELSE /\ pc' = "sample_tgt"
            /\ UNCHANGED <<idx, probs, src_pcd, src_feats, error, calls>>
    /\ UNCHANGED <<phase, config, method, data, inputs, feats, scores_overlap,
                   scores_saliency, src_raw, tgt_raw, tgt_pcd, tgt_feats,
                   src_scores, tgt_scores, ransac_args, tsfm, result, sent>>
    /\ UNCHANGED <<solverVars, vizVars>>

\* predator_infer, lines 167-172
sample_tgt ==
    /\ pc = "sample_tgt"
    /\ IF NeedsSampling(Len(tgt_pcd), config.n_points)
       THEN LET p == Probs(tgt_scores)
                err == ChoiceError(p, config.n_points)
            IN  /\ probs' = p
                /\ calls' = Append(calls, "choice_tgt")
                /\ IF err # "none"
                   THEN /\ Fail("ValueError", "sample_tgt", err)
                        /\ UNCHANGED <<idx, tgt_pcd, tgt_feats>>
                   ELSE \E ix \in ChoiceOutcomes(p, config.n_points) :
                        /\ idx' = ix
                        /\ tgt_pcd' = Subsample(tgt_pcd, tgt_feats, ix).pcd
                        /\ tgt_feats' = Subsample(tgt_pcd, tgt_feats, ix).feats
                        /\ pc' = "ransac"
                        /\ error' = error
       ELSE /\ pc' = "ransac"
            /\ UNCHANGED <<idx, probs, tgt_pcd, tgt_feats, error, calls>>
    /\ UNCHANGED <<phase, config, method, data, inputs, feats, scores_overlap,
                   scores_saliency, src_raw, tgt_raw, src_pcd, src_feats,
                   src_scores, tgt_scores, ransac_args, tsfm, result, sent>>
    /\ UNCHANGED <<solverVars, vizVars>>

\* predator_infer, lines 175-181: the one call of the pose solver
infer_ransac ==
    /\ pc = "ransac"
    /\ ransac_args' = [src_pcd |-> src_pcd, tgt_pcd |-> tgt_pcd,
                       src_feats |-> src_feats, tgt_feats |-> tgt_feats,
                       mutual |-> FALSE]
    /\ \E r \in SolverReturns : tsfm' = r
    /\ calls' = Append(calls, "ransac")
    /\ pc' = "package"
    /\ UNCHANGED <<phase, config, method, data, inputs, feats, scores_overlap,
                   scores_saliency, src_raw, tgt_raw, src_pcd, tgt_pcd,
                   src_feats, tgt_feats, src_scores, tgt_scores, idx, probs,
                   result,
                   sent, error>>
    /\ UNCHANGED <<solverVars, vizVars>>

\* predator_infer with a retry: a no-solution outcome goes back to the solver
infer_return_retry ==
    /\ pc = "package"
    /\ IF tsfm = None
       THEN /\ pc' = "ransac"
            /\ tsfm' = Unset
            /\ result' = result
       ELSE /\ pc' = "send"
            /\ tsfm' = tsfm
            /\ result' = Package(tsfm)
    /\ UNCHANGED <<phase, config, method, data, inputs, feats, scores_overlap,
                   scores_saliency, src_raw, tgt_raw, src_pcd, tgt_pcd,
                   src_feats, tgt_feats, src_scores, tgt_scores, idx, probs,
                   ransac_args, sent, error, calls>>
    /\ UNCHANGED <<solverVars, vizVars>>

\* predator_infer, lines 184-195
infer_return ==
    /\ pc = "package"
    /\ result' = Package(tsfm)
    /\ pc' = "send"
    /\ UNCHANGED <<phase, config, method, data, inputs, feats, scores_overlap,
                   scores_saliency, src_raw, tgt_raw, src_pcd, tgt_pcd,
                   src_feats, tgt_feats, src_scores, tgt_scores, idx, probs,
                   ransac_args, tsfm, sent, error, calls>>
    /\ UNCHANGED <<solverVars, vizVars>>

\* do_POST, lines 219-227
do_POST_send ==
    /\ pc = "send"
    /\ sent' = Append(sent, JsonResponse(json_dumps(result)))
    /\ pc' = "done"
    /\ UNCHANGED <<phase, config, method, data, inferVars, error, calls>>
    /\ UNCHANGED <<solverVars, vizVars>>

\* The handler is finished (returned or raised); serve_forever closes the
\* connection and waits for the next request.  The request's locals die.
shutdown_request ==
    /\ pc = "done"
    /\ pc' = "idle"
    /\ method' = "none"
    /\ data' = Unset
    /\ inputs' = Unset
    /\ feats' = <<>>
    /\ scores_overlap' = <<>>
    /\ scores_saliency' = <<>>
    /\ src_raw' = <<>>
    /\ tgt_raw' = <<>>
    /\ src_pcd' = <<>>
    /\ tgt_pcd' = <<>>
    /\ src_feats' = <<>>
    /\ tgt_feats' = <<>>
    /\ src_scores' = <<>>
    /\ tgt_scores' = <<>>
    /\ idx' = <<>>
    /\ probs' = Unset
    /\ ransac_args' = Unset
    /\ tsfm' = Unset
    /\ result' = Unset
    /\ sent' = <<>>
    /\ error' = NoError
    /\ calls' = <<>>
    /\ UNCHANGED <<phase, config>>
    /\ solver_state' = "idle"
    /\ n_corr' = 0
    /\ iteration' = 0
    /\ retries' = 0
    /\ best_inliers' = 0
    /\ usable' = FALSE
    /\ UNCHANGED vizVars

Next ==
    \/ Startup
    \/ do_GET
    \/ do_POST
    \/ infer_load
    \/ infer_forward
    \/ sample_src
    \/ sample_tgt
    \/ infer_ransac
    \/ infer_return
    \/ do_POST_send
    \/ shutdown_request

Spec == Init /\ [][Next]_vars


----------------------------------------------------------------------------
(* Vocabulary of the properties *)

Min(a, b) == IF a < b THEN a ELSE b
Range(s) == {s[i] : i \in 1..Len(s)}
Distinct(s) == \A a, b \in 1..Len(s) : a # b => s[a] # s[b]
Called(c) == c \in Range(calls)

InRequest == phase = "serving" /\ method = "POST" /\ data # Unset
HasClouds == InRequest /\ data.src.present /\ data.tgt.present
Forwarded == HasClouds /\ Called("model")

\* The subsampling step of a cloud was executed: it completed, or it raised.
SrcStepFailed == Forwarded /\ pc = "done" /\ error.at = "sample_src"
SrcStepDone ==
    /\ Forwarded
    /\ \/ pc \in {"sample_tgt", "ransac", "package", "send"}
       \/ pc = "done" /\ error.at # "sample_src"
SrcStepRan == SrcStepDone \/ SrcStepFailed

TgtStepFailed == Forwarded /\ pc = "done" /\ error.at = "sample_tgt"
TgtStepDone ==
    /\ Forwarded
    /\ \/ pc \in {"ransac", "package", "send"}
       \/ pc = "done" /\ error = NoError
TgtStepRan == TgtStepDone \/ TgtStepFailed

\* The scores and features of one cloud, as the model returned them.
LenSrc == inputs.stack_lengths[1]
SrcOverlap == SliceTo(scores_overlap, LenSrc)
TgtOverlap == SliceFrom(scores_overlap, LenSrc)
SrcSaliency == SliceTo(scores_saliency, LenSrc)
TgtSaliency == SliceFrom(scores_saliency, LenSrc)
SrcFeatsAll == SliceTo(feats, LenSrc)
TgtFeatsAll == SliceFrom(feats, LenSrc)

ScoreInRange(x) == 0 <= x /\ x <= 1
AllInRange(s) == \A i \in 1..Len(s) : ScoreInRange(s[i])
AllZero(s) == \A i \in 1..Len(s) : s[i] = 0
\* every score the model returned for this request lies in [0,1]
ScoresValid == AllInRange(scores_overlap) /\ AllInRange(scores_saliency)

\* out is a sample of raw: k points of raw, no index taken twice (the points
\* of a cloud carry pairwise distinct tags).
IsSample(out, raw, k) ==
    /\ Len(out) = k
    /\ Range(out) \subseteq Range(raw)
    /\ Distinct(out)

----------------------------------------------------------------------------
(* Properties *)

\* C1: for a cloud of N >= 1 points and K >= 1 the subsampling step completes
\* and leaves min(N, K) points of pairwise distinct original indices; stated
\* here for scores in [0,1] whose combined weights are not all zero.
\* (Violated: the draw raises ValueError when fewer than K weights are
\* positive.)
C1_SampleHasMinNK ==
    /\ (SrcStepRan /\ ScoresValid /\ config.n_points >= 1 /\ Len(src_raw) >= 1
            /\ ~AllZero(src_scores))
        => /\ SrcStepDone
           /\ IsSample(src_pcd, src_raw, Min(Len(src_raw), config.n_points))
    /\ (TgtStepRan /\ ScoresValid /\ config.n_points >= 1 /\ Len(tgt_raw) >= 1
            /\ ~AllZero(tgt_scores))
        => /\ TgtStepDone
           /\ IsSample(tgt_pcd, tgt_raw, Min(Len(tgt_raw), config.n_points))

\* C2: with N > K >= 1 and every combined weight zero the subsampling step
\* does not fail and returns K distinct points.  (Violated: 0 / 0 is NaN and
\* the draw raises ValueError.)
C2_ZeroWeightsFallBack ==
    /\ (SrcStepRan /\ ScoresValid /\ config.n_points >= 1
            /\ Len(src_raw) > config.n_points /\ AllZero(src_scores))
        => SrcStepDone /\ IsSample(src_pcd, src_raw, config.n_points)
    /\ (TgtStepRan /\ ScoresValid /\ config.n_points >= 1
            /\ Len(tgt_raw) > config.n_points /\ AllZero(tgt_scores))
        => TgtStepDone /\ IsSample(tgt_pcd, tgt_raw, config.n_points)

\* C3: a cloud of N <= K points reaches the pose solver unchanged, points and
\* features, same order, with no draw made; independently for src and tgt.
C3_SmallCloudUnchanged ==
    ransac_args # Unset =>
        /\ Len(data.src.points) <= config.n_points =>
            /\ ransac_args.src_pcd = data.src.points
            /\ ransac_args.src_feats = SrcFeatsAll
            /\ ~Called("choice_src")
        /\ Len(data.tgt.points) <= config.n_points =>
            /\ ransac_args.tgt_pcd = data.tgt.points
            /\ ransac_args.tgt_feats = TgtFeatsAll
            /\ ~Called("choice_tgt")

\* C3 witness: the solver was called with an unsampled source cloud of as many
\* points as the sample size (two) while the target cloud was sampled.
C3_Witness ==
    /\ ransac_args # Unset
    /\ Len(data.src.points) = 2
    /\ config.n_points = 2
    /\ Called("choice_tgt")
    /\ ransac_args.src_pcd = data.src.points

\* C4: after the subsampling of a cloud, output position j holds the point
\* and the feature of one and the same original index of that cloud; right
\* after a draw that index is idx[j].
C4_PairingPreserved ==
    /\ SrcStepDone =>
        /\ Len(src_feats) = Len(src_pcd)
        /\ \A j \in 1..Len(src_pcd) : \E i \in 1..Len(src_raw) :
              src_pcd[j] = src_raw[i] /\ src_feats[j] = SrcFeatsAll[i]
    /\ TgtStepDone =>
        /\ Len(tgt_feats) = Len(tgt_pcd)
        /\ \A j \in 1..Len(tgt_pcd) : \E i \in 1..Len(tgt_raw) :
              tgt_pcd[j] = tgt_raw[i] /\ tgt_feats[j] = TgtFeatsAll[i]
    /\ (pc = "sample_tgt" /\ Called("choice_src")) =>
        src_pcd = Take(src_raw, idx) /\ src_feats = Take(SrcFeatsAll, idx)
    /\ (pc = "ransac" /\ Called("choice_tgt")) =>
        tgt_pcd = Take(tgt_raw, idx) /\ tgt_feats = Take(TgtFeatsAll, idx)

\* C4 witness: both clouds were sampled, and neither sample starts with the
\* first point of its cloud.
C4_Witness ==
    /\ pc = "ransac"
    /\ Called("choice_src") /\ Called("choice_tgt")
    /\ Len(src_pcd) = 2 /\ Len(tgt_pcd) = 2
    /\ src_pcd[1] # src_raw[1]
    /\ tgt_pcd[1] # tgt_raw[1]

Is4x4(m) == Len(m) = 4 /\ \A i \in 1..4 : Len(m[i]) = 4

\* C5: every value predator_infer returns has a "transform" that is null or
\* a 4x4 matrix, whatever the pose solver returned; stated here for requests
\* with valid scores and K >= 1.  (Violated: the array the solver returned is
\* passed through tolist() unchecked.)
C5_TransformNullOr4x4 ==
    (result # Unset /\ ScoresValid /\ config.n_points >= 1) =>
        \/ result.transform = None
        \/ result.transform.kind = "list" /\ Is4x4(result.transform.data)

NullBody == <<"{", "\"transform\"", ":", "null", "}">>

\* C6: when the pose solver returns None, predator_infer returns
\* {"transform": None} without raising and do_POST sends the body
\* {"transform": null} as a normal JSON response.
C6_NoSolutionIsNullResponse ==
    tsfm = None =>
        /\ error = NoError
        /\ pc \in {"package", "send", "done"}
        /\ pc \in {"send", "done"} => result = [transform |-> None]
        /\ pc = "done" => sent = <<JsonResponse(NullBody)>>

\* C6 witness: a POST whose solver call returned None has been answered.
C6_Witness == pc = "done" /\ method = "POST" /\ tsfm = None /\ Len(sent) = 1

WellFormedTransformBody(b) ==
    /\ Len(b) >= 5
    /\ SubSeq(b, 1, 3) = <<"{", "\"transform\"", ":">>
    /\ b[Len(b)] = "}"

\* C7: a finished POST that carried two clouds has been sent exactly one JSON
\* response holding the key "transform"; stated here for non-empty clouds,
\* K >= 1 and scores in [0,1].  (Violated: an exception inside predator_infer
\* leaves do_POST and nothing is written.)
C7_AlwaysOneResponse ==
    (HasClouds /\ pc = "done" /\ config.n_points >= 1
        /\ Len(data.src.points) >= 1 /\ Len(data.tgt.points) >= 1
        /\ ScoresValid)
    => /\ Len(sent) = 1
       /\ sent[1].ctype = "application/json;charset=utf-8"
       /\ WellFormedTransformBody(sent[1].body)

BadCloud(e) == ~e.present \/ Len(e.points) = 0

\* C8: a request with an empty or malformed cloud ends with InvalidInputError
\* before the feature model, the subsampler or the solver is invoked.
\* (Violated: the code has no such check; it raises KeyError or IndexError.)
C8_BadInputRejected ==
    (InRequest /\ (BadCloud(data.src) \/ BadCloud(data.tgt))) =>
        /\ calls = <<>>
        /\ pc = "done" => error.type = "InvalidInputError"

\* C9: with config.n_points <= 0 the subsampling step fails with
\* InvalidConfigError for every cloud size, and never returns a sample;
\* stated here for scores in [0,1] whose combined weights are all positive.
\* (Violated: K = 0 returns an empty sample, K < 0 raises ValueError.)
C9_NonPositiveKRejected ==
    /\ (SrcStepRan /\ ScoresValid /\ config.n_points <= 0
            /\ \A i \in 1..Len(src_scores) : src_scores[i] > 0) =>
        SrcStepFailed /\ error.type = "InvalidConfigError"
    /\ (TgtStepRan /\ ScoresValid /\ config.n_points <= 0
            /\ \A i \in 1..Len(tgt_scores) : tgt_scores[i] > 0) =>
        TgtStepFailed /\ error.type = "InvalidConfigError"

\* C10: when a score of a cloud lies outside [0,1] the request ends with
\* InvalidScoreError and no draw is made with probabilities built from those
\* scores; stated here for K >= 1.  (Violated: the scores are multiplied and
\* normalised unchecked.)
C10_BadScoresRejected ==
    (Forwarded /\ config.n_points >= 1) =>
        /\ ~(AllInRange(SrcOverlap) /\ AllInRange(SrcSaliency)) =>
            ~(Called("choice_src") /\ SrcStepDone)
        /\ ~(AllInRange(TgtOverlap) /\ AllInRange(TgtSaliency)) =>
            ~(Called("choice_tgt") /\ TgtStepDone)
        /\ (~ScoresValid /\ pc = "done") => error.type = "InvalidScoreError"

----------------------------------------------------------------------------
(* The probabilities of a draw *)

\* probs holds the probabilities of the source draw, or of the target draw
SrcProbsBuilt == Forwarded /\ Called("choice_src") /\ ~Called("choice_tgt")
TgtProbsBuilt == Forwarded /\ Called("choice_tgt")

\* the weight overlap_i * saliency_i of every point of one cloud
Weights(overlap, saliency) ==
    [i \in 1..Len(overlap) |-> overlap[i] * saliency[i]]

\* p gives point i the probability w_i over the sum of w
IsNormalised(p, w) == p.num = w /\ p.den = SeqSum(w)
\* the probabilities of p are numbers and add up to 1
SumsToOne(p) == p.den # 0 /\ SeqSum(p.num) = p.den

\* The part of C11 that holds: the probabilities of a cloud's draw are built
\* from the scores of that cloud alone, each weight over the cloud's own sum.
ProbsArePerCloud ==
    /\ SrcProbsBuilt => IsNormalised(probs, Weights(SrcOverlap, SrcSaliency))
    /\ TgtProbsBuilt => IsNormalised(probs, Weights(TgtOverlap, TgtSaliency))

\* C11: for each cloud on its own, the probability the draw gives point i is
\* overlap_i * saliency_i over the sum of these weights in the same cloud,
\* and the probabilities of each cloud sum to 1; stated here for scores in
\* [0,1] and K >= 1.  (Violated: when every weight of a cloud is 0 the sum is 0 and the
\* probabilities are 0/0, not numbers that sum to 1.)
C11_ProbsNormalisedPerCloud ==
    (Forwarded /\ ScoresValid /\ config.n_points >= 1) =>
        /\ SrcProbsBuilt =>
            /\ IsNormalised(probs, Weights(SrcOverlap, SrcSaliency))
            /\ SumsToOne(probs)
        /\ TgtProbsBuilt =>
            /\ IsNormalised(probs, Weights(TgtOverlap, TgtSaliency))
            /\ SumsToOne(probs)

----------------------------------------------------------------------------
(* One solver call per request *)

\* how often c was called in the request being handled
Count(c) == Cardinality({i \in 1..Len(calls) : calls[i] = c})

\* predator_infer has got past the solver call of this request
SolverReturned == tsfm # Unset

\* C12: within one request the pose solver is invoked once and never again:
\* no state holds a second solver call or a second draw of a cloud, a request
\* that got past the solver holds exactly one solver call, and nothing is
\* called after the solver has returned, whether or not it found a solution.
C12_SolverCalledOnce ==
    /\ Count("ransac") <= 1
    /\ Count("choice_src") <= 1 /\ Count("choice_tgt") <= 1
    /\ (pc \in {"package", "send"} \/ (pc = "done" /\ result # Unset)) =>
        SolverReturned
    /\ SolverReturned =>
        /\ Count("ransac") = 1
        /\ calls[Len(calls)] = "ransac"

\* C12 witness: both clouds were drawn, the solver found no solution, and the
\* request is over with that single solver call as its last call.
C12_Witness ==
    /\ pc = "done" /\ tsfm = None /\ result = [transform |-> None]
    /\ calls = <<"model", "choice_src", "choice_tgt", "ransac">>

----------------------------------------------------------------------------
(* One request at a time; the config *)

\* the handler is inside predator_infer
InPredatorInfer ==
    pc \in {"infer_load", "infer_forward", "sample_src", "sample_tgt",
            "ransac", "package"}
\* this step takes a new request off the socket
TakesRequest ==
    method' # "none" /\ (method' # method \/ data' # data)
\* nothing of an earlier request is left
NoRequestLeft ==
    /\ pc = "idle" /\ method = "none" /\ data = Unset
    /\ calls = <<>> /\ sent = <<>> /\ error = NoError
    /\ inputs = Unset /\ tsfm = Unset /\ result = Unset

ConfigValues ==
    [n_points : NPointsValues, device : {"cuda", "cpu"},
     model : {"KPFCNN.eval"}, neighborhood_limits : {"calibrated"}]

\* C17: the config (model in eval mode, n_points, neighborhood_limits,
\* device) is complete before the first request is taken, and no GET or POST
\* changes it.
C17_ConfigFixedBeforeServing ==
    /\ [](/\ phase = "serving" => config \in ConfigValues
          /\ (pc # "idle" \/ method # "none") => phase = "serving")
    /\ [][phase = "serving" => config' = config /\ phase' = phase]_vars

\* C17 witness: a POST has run through predator_infer and been answered
\* under the config set at startup.
C17_Witness ==
    /\ phase = "serving" /\ config \in ConfigValues
    /\ pc = "done" /\ method = "POST" /\ Len(sent) = 1
    /\ calls = <<"model", "choice_src", "choice_tgt", "ransac">>

----------------------------------------------------------------------------
(* The pose solver: ransac_pose_estimation(src_pcd, tgt_pcd, src_feats,   *)
(* tgt_feats, mutual=False).  Its code is not part of src/; the state     *)
(* machine below is the one of spec.md 4.3 / 4.4.  Spec leaves the solver  *)
(* a black box (infer_ransac); SolverSpec runs the same request through    *)
(* this state machine instead.                                             *)

\* A correspondence set must have this many entries, and a candidate this
\* many inliers, for a rigid transform to be fitted / accepted.
MinCorrespondences == 3
MinInliers == 3

Max(a, b) == IF a >= b THEN a ELSE b

\* Correspondence estimator without mutual filtering: one nearest target per
\* source point; an empty set when either side is empty.
CorrespondenceCount(sf, tf) ==
    IF Len(sf) = 0 \/ Len(tf) = 0 THEN 0 ELSE Len(sf)

\* Init without its validation: any correspondence set goes on to Iterating
solver_validate_unchecked ==
    /\ pc = "ransac"
    /\ solver_state = "Init"
    /\ solver_state' = "Iterating"
    /\ UNCHANGED <<serverVars, n_corr, iteration, retries, best_inliers,
                   usable, vizVars>>

\* the end of the budget with the best candidate accepted as it is
solver_finish_unchecked ==
    /\ pc = "ransac"
    /\ solver_state = "Iterating"
    /\ iteration = MaxIter
    /\ solver_state' = "Converged"
    /\ UNCHANGED <<serverVars, n_corr, iteration, retries, best_inliers,
                   usable, vizVars>>

\* a degenerate subset drawn again without counting the retry
solver_degenerate_uncounted ==
    /\ pc = "ransac"
    /\ solver_state = "Iterating"
    /\ iteration < MaxIter
    /\ retries' = IF retries < MaxRetry THEN retries + 1 ELSE 0
    /\ UNCHANGED <<serverVars, solver_state, n_corr, iteration, best_inliers,
                   usable, vizVars>>

\* predator_infer, lines 175-181: the solver is called.
ransac_call ==
    /\ pc = "ransac"
    /\ solver_state = "idle"
    /\ ransac_args' = [src_pcd |-> src_pcd, tgt_pcd |-> tgt_pcd,
                       src_feats |-> src_feats, tgt_feats |-> tgt_feats,
                       mutual |-> FALSE]
    /\ calls' = Append(calls, "ransac")
    /\ n_corr' = CorrespondenceCount(src_feats, tgt_feats)
    /\ solver_state' = "Init"
    /\ UNCHANGED <<phase, config, pc, method, data, inputs, feats,
                   scores_overlap, scores_saliency, src_raw, tgt_raw, src_pcd,
                   tgt_pcd, src_feats, tgt_feats, src_scores, tgt_scores, idx,
                   probs, tsfm, result, sent, error>>
    /\ UNCHANGED <<iteration, retries, best_inliers, usable, vizVars>>

\* Init: fewer than 3 correspondences end the solver with no solution.
solver_validate ==
    /\ pc = "ransac"
    /\ solver_state = "Init"
    /\ solver_state' = IF n_corr < MinCorrespondences THEN "Exhausted"
                       ELSE "Iterating"
    /\ UNCHANGED <<serverVars, n_corr, iteration, retries, best_inliers,
                   usable, vizVars>>

\* Iterating (a), degenerate: the minimal subset drawn is collinear.  It is
\* drawn again while retries are left; once they are used up the solver gives
\* up if no subset was ever usable, and otherwise the iteration is spent.
solver_degenerate ==
    /\ pc = "ransac"
    /\ solver_state = "Iterating"
    /\ iteration < MaxIter
    /\ IF retries < MaxRetry
       THEN /\ retries' = retries + 1
            /\ UNCHANGED <<solver_state, iteration>>
       ELSE IF ~usable
       THEN /\ solver_state' = "Exhausted"
            /\ UNCHANGED <<retries, iteration>>
       ELSE /\ iteration' = iteration + 1
            /\ UNCHANGED <<solver_state, retries>>
    /\ UNCHANGED <<serverVars, n_corr, best_inliers, usable, vizVars>>

\* Iterating (a)-(d): a usable subset, a candidate fitted from it, its
\* inliers counted, the best candidate kept.
solver_candidate ==
    /\ pc = "ransac"
    /\ solver_state = "Iterating"
    /\ iteration < MaxIter
    /\ \E inliers \in 0..n_corr :
        best_inliers' = Max(best_inliers, inliers)
    /\ usable' = TRUE
    /\ iteration' = iteration + 1
    /\ UNCHANGED <<serverVars, solver_state, n_corr, retries, vizVars>>

\* The budget is used up: Converged when the best candidate cleared the
\* minimum inlier count, Exhausted otherwise.
solver_finish ==
    /\ pc = "ransac"
    /\ solver_state = "Iterating"
    /\ iteration = MaxIter
    /\ solver_state' = IF best_inliers >= MinInliers THEN "Converged"
                       ELSE "Exhausted"
    /\ UNCHANGED <<serverVars, n_corr, iteration, retries, best_inliers,
                   usable, vizVars>>

\* The solver returns: the refined transform of the best candidate, or None.
ransac_return ==
    /\ pc = "ransac"
    /\ solver_state \in {"Converged", "Exhausted"}
    /\ tsfm' = IF solver_state = "Converged"
               THEN [kind |-> "ndarray", data |-> Matrix(4, 4)]
               ELSE None
    /\ pc' = "package"
    /\ UNCHANGED <<phase, config, method, data, inputs, feats, scores_overlap,
                   scores_saliency, src_raw, tgt_raw, src_pcd, tgt_pcd,
                   src_feats, tgt_feats, src_scores, tgt_scores, idx, probs,
                   ransac_args, result, sent, error, calls>>
    /\ UNCHANGED <<solverVars, vizVars>>

\* The forward pass of a request whose scores are all 1: the solver does not
\* read the scores.
forward_ones ==
    /\ infer_forward
    /\ \A j \in 1..Len(scores_overlap') :
        scores_overlap'[j] = 1 /\ scores_saliency'[j] = 1

SolverNext ==
    \/ Startup
    \/ do_GET
    \/ do_POST
    \/ infer_load
    \/ forward_ones
    \/ sample_src
    \/ sample_tgt
    \/ ransac_call
    \/ solver_validate
    \/ solver_degenerate
    \/ solver_candidate
    \/ solver_finish
    \/ ransac_return
    \/ infer_return
    \/ do_POST_send
    \/ shutdown_request

SolverSpec == Init /\ [][SolverNext]_vars

----------------------------------------------------------------------------
(* Properties of the pose solver, under SolverSpec *)

SolverCalled == solver_state # "idle"
SolverTerminal == solver_state \in {"Converged", "Exhausted"}
\* the solver has handed back a transform
ReturnedTransform == tsfm # Unset /\ tsfm # None

\* C13: called with fewer than 3 correspondences (none included), the solver
\* goes from Init straight to Exhausted: it never iterates, fits no candidate
\* and raises nothing, it returns None, and the request is answered with the
\* body {"transform": null}.
C13_TooFewCorrespondences ==
    (SolverCalled /\ n_corr < MinCorrespondences) =>
        /\ solver_state \in {"Init", "Exhausted"}
        /\ iteration = 0 /\ retries = 0 /\ ~usable /\ best_inliers = 0
        /\ error = NoError
        /\ tsfm \in {Unset, None}
        /\ pc \in {"ransac", "package", "send", "done"}
        /\ pc # "ransac" => tsfm = None /\ solver_state = "Exhausted"
        /\ pc \in {"send", "done"} => result = [transform |-> None]
        /\ pc = "done" => sent = <<JsonResponse(NullBody)>>

\* C13 witness: a request whose solver call had 1 or 2 correspondences has
\* been answered.
C13_Witness ==
    /\ pc = "done" /\ solver_state = "Exhausted"
    /\ n_corr \in 1..(MinCorrespondences - 1)
    /\ sent = <<JsonResponse(NullBody)>>

\* the same with an empty correspondence set
C13_WitnessNone ==
    /\ pc = "done" /\ solver_state = "Exhausted" /\ n_corr = 0
    /\ sent = <<JsonResponse(NullBody)>>

\* C14: the solver ends in Converged, and returns a transform, only if a
\* candidate reached the minimum inlier count; otherwise it ends in Exhausted
\* and returns None; and an invocation that reached one terminal state never
\* moves to the other.
C14_ConvergedOnlyWithConsensus ==
    /\ [](/\ solver_state = "Converged" =>
                usable /\ best_inliers >= MinInliers
          /\ solver_state = "Exhausted" => best_inliers < MinInliers
          /\ ReturnedTransform => solver_state = "Converged"
          /\ tsfm = None => solver_state = "Exhausted"
          /\ pc \in {"package", "send"} => SolverTerminal)
    /\ [][SolverTerminal => solver_state' \in {solver_state, "idle"}]_vars

\* C14 witness: a request whose solver converged has been answered with a
\* transform.
C14_Witness ==
    /\ pc = "done" /\ solver_state = "Converged" /\ ReturnedTransform
    /\ best_inliers >= MinInliers
    /\ Len(sent) = 1 /\ sent # <<JsonResponse(NullBody)>>

\* What is left of the solver's work: 0 in a terminal state.
SolverMeasure ==
    CASE solver_state = "Init" -> MaxIter + MaxRetry + 2
      [] solver_state = "Iterating" ->
            (MaxIter - iteration) + (MaxRetry - retries) + 1
      [] OTHER -> 0

solver_step ==
    solver_validate \/ solver_degenerate \/ solver_candidate \/ solver_finish

\* C15: an invocation of the solver always ends in Converged or Exhausted:
\* the iterations stay within the budget and the redraws within the retry
\* count, every state short of a terminal one has a step to take, every step
\* of the solver brings it closer to a terminal state, and a degenerate
\* subset drawn with no retry left and no usable subset so far ends the
\* solver in Exhausted.
C15_SolverTerminates ==
    /\ [](/\ iteration \in 0..MaxIter
          /\ retries \in 0..MaxRetry
          /\ solver_state \in {"Init", "Iterating"} => ENABLED solver_step
          /\ SolverTerminal => ENABLED ransac_return \/ tsfm # Unset)
    /\ [][(SolverCalled /\ solverVars' # solverVars /\ solver_state' # "idle")
            => SolverMeasure' < SolverMeasure]_vars
    /\ [][(solver_state = "Iterating" /\ retries = MaxRetry /\ ~usable
            /\ ~usable' /\ solverVars' # solverVars)
            => solver_state' = "Exhausted"]_vars

\* C15 witness: the retries ran out before any subset was usable and the
\* solver is in Exhausted.
C15_Witness ==
    /\ solver_state = "Exhausted" /\ n_corr >= MinCorrespondences
    /\ retries = MaxRetry /\ ~usable /\ iteration = 0

----------------------------------------------------------------------------
(* The visualizer, src/web_pointcloud_visualizer.py: main(),               *)
(* PointCloudWebVisualizer.load_test_results and the script of the page    *)
(* (loadSamples, displaySample, nextSample, prevSample).                   *)
(*                                                                         *)
(* Abstractions.  A point is one integer coordinate; rot is a factor 1 or  *)
(* -1 and trans an offset, so rot @ p + trans is rot * p + trans.  A file  *)
(* is described by what reading it does: it loads and holds every key, or  *)
(* torch.load raises, or a key is missing.                                 *)

\* Largest number of *.pth files in benchmark_path.
MaxFiles == 3
\* Largest value of the argument max_samples.
MaxSamples == 3
\* Largest number of clicks on the two buttons of the page.
MaxClicks == 3
\* The argument downsample_factor (10 by default; 2 for the small clouds here)
DownsampleFactor == 2

\* benchmark_path does not exist
NoDir == [dir |-> FALSE, listing |-> <<>>]
\* benchmark_path holds these *.pth files, in the order glob lists them
Dir(listing) == [dir |-> TRUE, listing |-> listing]

\* data['pcd'] and data['len_src'] of a readable file
FilePcd == <<1, 2, 3, 5, 6, 7>>
FileLenSrc == 3

GoodFile(rot, trans) == [kind |-> "ok", rot |-> rot, trans |-> trans]
Unreadable == [kind |-> "torch.load raises", rot |-> 0, trans |-> 0]
Incomplete == [kind |-> "KeyError: 'rot'", rot |-> 0, trans |-> 0]
FileKinds == {GoodFile(1, 0), GoodFile(0 - 1, 1), Unreadable, Incomplete}

FileLists ==
    {NoDir} \cup
    {Dir(l) : l \in UNION {[1..n -> FileKinds] : n \in 0..MaxFiles}}

\* os.path.basename(result_file) of the file at position i of the listing
FileName(i) == 500 + i

\* x[::step]
Stride(x, step) ==
    [k \in 1..((Len(x) + step - 1) \div step) |-> x[(k - 1) * step + 1]]

\* (rot @ src_points.T + trans).T
Transform(rot, trans, points) ==
    [k \in 1..Len(points) |-> rot * points[k] + trans]

\* lines 50-89: the sample_data of file f, read as the i-th file
SampleData(i, f) ==
    LET file_src == SliceTo(FilePcd, FileLenSrc)
        file_tgt == SliceFrom(FilePcd, FileLenSrc)
        src_points == Stride(file_src, DownsampleFactor)
        tgt_points == Stride(file_tgt, DownsampleFactor)
    IN  [sample_id |-> i,
         filename |-> FileName(i),
         source_points |-> src_points,
         target_points |-> tgt_points,
         source_transformed |-> Transform(f.rot, f.trans, src_points),
         transform |-> [rotation |-> f.rot, translation |-> f.trans],
         stats |-> [source_original |-> Len(file_src),
                    target_original |-> Len(file_tgt),
                    source_downsampled |-> Len(src_points),
                    target_downsampled |-> Len(tgt_points),
                    downsample_factor |-> DownsampleFactor]]

\* a loop body that appends what it had extracted when a key is missing
TryLoadKeepingPartial(res, i, f) ==
    IF f.kind = "ok"
    THEN [results |-> Append(res, SampleData(i, f)), escaped |-> FALSE]
    ELSE IF f.kind = "KeyError: 'rot'"
    THEN [results |-> Append(res, [sample_id |-> i, filename |-> FileName(i)]),
          escaped |-> FALSE]
    ELSE [results |-> res, escaped |-> FALSE]

\* lines 45-96, one pass of the loop body: the try block appends the sample
\* as its last step; an exception before that is caught and the file skipped.
TryLoad(res, i, f) ==
    IF f.kind = "ok"
    THEN [results |-> Append(res, SampleData(i, f)), escaped |-> FALSE]
    ELSE [results |-> res, escaped |-> FALSE]

\* the listing without the limit of max_samples
ListedUnsliced == files.listing

\* result_files[:max_samples]
Listed == SubSeq(files.listing, 1, Min(max_samples, Len(files.listing)))

\* lines 282-330: the scene after displaySample(index) on the list shown.
\* The scene is emptied first; an index outside the list gives undefined, and
\* reading a field of it throws, which leaves the scene empty.
displaySample(list, index) ==
    IF index \in 0..(Len(list) - 1)
    THEN [kind |-> "clouds", index |-> index,
          blue |-> list[index + 1].target_points,
          yellow |-> list[index + 1].source_points]
    ELSE [kind |-> "empty", index |-> index, blue |-> <<>>, yellow |-> <<>>]

\* a guard that lets currentSample reach samples.length
NextGuardOffByOne(current, length) == current < length
\* line 333
NextGuard(current, length) == current < length - 1
\* line 340
PrevGuard(current) == current > 0

VizInit ==
    /\ ServerInit
    /\ SolverIdle
    /\ vpc = "constructed"
    /\ files \in FileLists
    /\ max_samples \in 0..MaxSamples
    /\ loop_i = 0
    /\ results = <<>>
    /\ returned = Unset
    /\ escaped = FALSE
    /\ samples = <<>>
    /\ currentSample = 0
    /\ scene = Unset
    /\ draws = 0
    /\ clicks = 0
    /\ last_click = "none"

\* load_test_results, lines 28-41: called, the directory and the listing
\* checked.
load_test_results ==
    /\ vpc = "constructed"
    /\ IF ~files.dir \/ Len(files.listing) = 0
       THEN returned' = FALSE /\ vpc' = "loaded"
       ELSE returned' = returned /\ vpc' = "loading"
    /\ UNCHANGED <<serverVars, solverVars, files, max_samples, loop_i,
                   results, escaped, samples, currentSample, scene, draws,
                   clicks, last_click>>

\* load_test_results, lines 44-96: one pass of the loop.
load_file ==
    /\ vpc = "loading"
    /\ loop_i < Len(Listed)
    /\ LET r == TryLoad(results, loop_i, Listed[loop_i + 1])
       IN  /\ results' = r.results
           /\ escaped' = r.escaped
           /\ vpc' = IF r.escaped THEN "crashed" ELSE vpc
    /\ loop_i' = loop_i + 1
    /\ UNCHANGED <<serverVars, solverVars, files, max_samples, returned,
                   samples, currentSample, scene, draws, clicks, last_click>>

\* a return value that tells whether any file was listed
load_return_listed ==
    /\ vpc = "loading"
    /\ loop_i = Len(Listed)
    /\ returned' = (Len(files.listing) > 0)
    /\ vpc' = "loaded"
    /\ UNCHANGED <<serverVars, solverVars, files, max_samples, loop_i,
                   results, escaped, samples, currentSample, scene, draws,
                   clicks, last_click>>

\* load_test_results, lines 98-99.
load_return ==
    /\ vpc = "loading"
    /\ loop_i = Len(Listed)
    /\ returned' = (Len(results) > 0)
    /\ vpc' = "loaded"
    /\ UNCHANGED <<serverVars, solverVars, files, max_samples, loop_i,
                   results, escaped, samples, currentSample, scene, draws,
                   clicks, last_click>>

\* main, lines 406-413: the page is written and the server started only when
\* load_test_results returned True.
main_serve ==
    /\ vpc = "loaded"
    /\ vpc' = IF returned THEN "serving" ELSE "exit"
    /\ UNCHANGED <<serverVars, solverVars, files, max_samples, loop_i,
                   results, returned, escaped, samples, currentSample, scene,
                   draws, clicks, last_click>>

\* window.onload, lines 347-350 and 268-269: the page is opened and asks for
\* /data.
open_page ==
    /\ vpc = "serving"
    /\ vpc' = "fetching"
    /\ UNCHANGED <<serverVars, solverVars, files, max_samples, loop_i,
                   results, returned, escaped, samples, currentSample, scene,
                   draws, clicks, last_click>>

\* loadSamples, lines 270-278, and do_GET, lines 366-373: the answer of /data
\* arrives (json.dumps(self.results), parsed by response.json()), or the
\* request fails and the error is logged.
loadSamples ==
    /\ vpc = "fetching"
    /\ vpc' = "page"
    /\ \E ok \in BOOLEAN :
        IF ok
        THEN /\ samples' = results
             /\ IF Len(results) > 0
                THEN /\ currentSample' = 0
                     /\ scene' = displaySample(results, 0)
                     /\ draws' = draws + 1
                ELSE UNCHANGED <<currentSample, scene, draws>>
        ELSE UNCHANGED <<samples, currentSample, scene, draws>>
    /\ UNCHANGED <<serverVars, solverVars, files, max_samples, loop_i,
                   results, returned, escaped, clicks, last_click>>

\* nextSample, lines 332-337: a click on the button.
nextSample ==
    /\ vpc \in {"fetching", "page"}
    /\ clicks < MaxClicks
    /\ clicks' = clicks + 1
    /\ last_click' = "next"
    /\ IF NextGuard(currentSample, Len(samples))
       THEN /\ currentSample' = currentSample + 1
            /\ scene' = displaySample(samples, currentSample + 1)
            /\ draws' = draws + 1
       ELSE UNCHANGED <<currentSample, scene, draws>>
    /\ UNCHANGED <<serverVars, solverVars, vpc, files, max_samples, loop_i,
                   results, returned, escaped, samples>>

\* prevSample, lines 339-344: a click on the button.
prevSample ==
    /\ vpc \in {"fetching", "page"}
    /\ clicks < MaxClicks
    /\ clicks' = clicks + 1
    /\ last_click' = "prev"
    /\ IF PrevGuard(currentSample)
       THEN /\ currentSample' = currentSample - 1
            /\ scene' = displaySample(samples, currentSample - 1)
            /\ draws' = draws + 1
       ELSE UNCHANGED <<currentSample, scene, draws>>
    /\ UNCHANGED <<serverVars, solverVars, vpc, files, max_samples, loop_i,
                   results, returned, escaped, samples>>

VizNext ==
    \/ load_test_results
    \/ load_file
    \/ load_return
    \/ main_serve
    \/ open_page
    \/ loadSamples
    \/ nextSample
    \/ prevSample

VizSpec == VizInit /\ [][VizNext]_vars

----------------------------------------------------------------------------
(* Properties of the visualizer, under VizSpec *)

\* the sample the scene shows
Shown == samples[scene.index + 1]

\* C18: the yellow cloud that displaySample draws is the transformed source
\* cloud of the sample, source_transformed, as the legend of the page says.
\* (Violated: the yellow cloud is built from source_points, the source cloud
\* before the transform.)
C18_YellowIsTransformedSource ==
    (scene # Unset /\ scene.kind = "clouds") =>
        scene.yellow = Shown.source_transformed

\* C19: once samples are loaded currentSample stays within
\* 0..samples.length-1 whatever is clicked, a click on next at the last
\* sample or on prev at the first changes neither currentSample nor the
\* scene, and with an empty list displaySample is never called.
C19_CurrentSampleInRange ==
    /\ [](/\ Len(samples) > 0 => currentSample \in 0..(Len(samples) - 1)
          /\ Len(samples) = 0 =>
                draws = 0 /\ scene = Unset /\ currentSample = 0
          /\ scene # Unset =>
                scene.kind = "clouds" /\ scene.index = currentSample)
    /\ [][(clicks' # clicks /\ last_click' = "next" /\ Len(samples) > 0
            /\ currentSample = Len(samples) - 1)
            => UNCHANGED <<currentSample, scene, draws>>]_vars
    /\ [][(clicks' # clicks /\ last_click' = "prev" /\ Len(samples) > 0
            /\ currentSample = 0)
            => UNCHANGED <<currentSample, scene, draws>>]_vars
    /\ [][(clicks' # clicks /\ Len(samples) = 0)
            => UNCHANGED <<currentSample, scene, draws>>]_vars

\* C19 witness: two samples are loaded and three clicks were made of which
\* only one moved: the last sample is shown after two draws in all.
C19_Witness ==
    /\ vpc = "page" /\ Len(samples) = 2 /\ clicks = 3 /\ last_click = "next"
    /\ currentSample = 1 /\ draws = 2

\* the same for clicks made on an empty list
C19_WitnessEmpty ==
    /\ vpc = "page" /\ Len(samples) = 0 /\ clicks = 2 /\ draws = 0

\* the entry of results that file k (0-based) of the listing gave, if any
EntriesOf(k) == {e \in 1..Len(results) : results[e].sample_id = k}

\* C20: a file whose loading or extraction raises is skipped: it leaves no
\* entry in results, complete or partial, the exception does not leave
\* load_test_results, and the loop goes on to the remaining files among the
\* first max_samples.  Every entry of results is the complete sample of a
\* readable file already passed, every readable file passed has exactly one
\* entry, and the function returns only after the last listed file.
C20_BadFileSkipped ==
    (vpc \in {"loading", "loaded", "serving", "fetching", "page", "exit",
              "crashed"} /\ files.dir) =>
        /\ ~escaped /\ vpc # "crashed"
        /\ loop_i \in 0..Len(Listed)
        /\ \A k \in 0..(loop_i - 1) :
            IF Listed[k + 1].kind = "ok"
            THEN Cardinality(EntriesOf(k)) = 1
            ELSE EntriesOf(k) = {}
        /\ \A e \in 1..Len(results) :
            /\ results[e].sample_id \in 0..(loop_i - 1)
            /\ results[e] = SampleData(results[e].sample_id,
                                       Listed[results[e].sample_id + 1])
        /\ (vpc # "loading" /\ Len(files.listing) > 0) =>
            loop_i = Len(Listed)

\* C20 witness: load_test_results has returned; an unreadable file and a file
\* with a missing key were skipped and the readable file after them loaded.
C20_Witness ==
    /\ vpc = "loaded" /\ max_samples = 3
    /\ files.dir /\ Len(files.listing) = 3
    /\ files.listing[1] = Unreadable /\ files.listing[2] = Incomplete
    /\ files.listing[3].kind = "ok"
    /\ Len(results) = 1 /\ results[1].sample_id = 2

----------------------------------------------------------------------------
(* The outcome of load_test_results, under VizSpec *)

\* load_test_results has returned
LoadReturned == vpc \in {"loaded", "serving", "fetching", "page", "exit"}

\* the positions (0-based) of the candidate files: the first max_samples of
\* the listing
Candidates == 0..(Min(max_samples, Len(files.listing)) - 1)
\* the candidates that load and hold every key
Readable == {k \in Candidates : files.listing[k + 1].kind = "ok"}

\* C21: on a fresh visualizer load_test_results returns True exactly when the
\* call appended at least one sample to results, which is exactly when some
\* candidate file was readable; it returns False when the directory is
\* missing, when it holds no .pth file and when every candidate failed.  main
\* starts the server only on True.
C21_ReturnsTrueIffAppended ==
    LoadReturned =>
        /\ returned \in BOOLEAN
        /\ returned <=> Len(results) > 0
        /\ returned <=> Readable # {}
        /\ ~files.dir => ~returned /\ results = <<>>
        /\ Len(files.listing) = 0 => ~returned /\ results = <<>>
        /\ vpc \in {"serving", "fetching", "page"} => returned
        /\ vpc = "exit" => ~returned

\* C21 witness: two candidate files were tried, both failed, and the call
\* returned False with nothing appended.
C21_Witness ==
    /\ vpc = "loaded" /\ returned = FALSE /\ results = <<>>
    /\ files.dir /\ Cardinality(Candidates) >= 2 /\ Readable = {}

\* the same for a call that returned True after skipping a file
C21_WitnessTrue ==
    /\ vpc = "loaded" /\ returned = TRUE /\ Len(results) = 1
    /\ Cardinality(Candidates) = 2 /\ Cardinality(Readable) = 1

\* the same for a missing directory
C21_WitnessNoDir == vpc = "loaded" /\ ~files.dir /\ returned = FALSE

\* C22: after one call on a fresh visualizer with F files and max_samples = M,
\* results holds at most min(M, F) entries whose sample_id values are
\* pairwise distinct, strictly increasing in list order and each within
\* 0..min(M, F) - 1; a sample_id is the position of the entry's file among
\* the candidates, a readable one, and so never less than the entry's own
\* position in results.
C22_SampleIdsIncreasing ==
    (LoadReturned /\ files.dir) =>
        /\ Len(results) <= Min(max_samples, Len(files.listing))
        /\ \A e \in 1..Len(results) :
            /\ results[e].sample_id \in Candidates
            /\ results[e].sample_id \in Readable
            /\ results[e].sample_id >= e - 1
            /\ results[e].filename = FileName(results[e].sample_id)
        /\ \A d, e \in 1..Len(results) :
            d < e => results[d].sample_id < results[e].sample_id
        /\ Distinct([e \in 1..Len(results) |-> results[e].sample_id])

\* C22 witness: of three candidate files the first was skipped, so the two
\* entries of results carry the sample_id values 1 and 2.
C22_Witness ==
    /\ vpc = "loaded" /\ files.dir /\ Len(files.listing) = 3
    /\ max_samples = 3 /\ Len(results) = 2
    /\ results[1].sample_id = 1 /\ results[2].sample_id = 2

\* the same with more files than max_samples: the file past the limit, though
\* readable, gave no entry
C22_WitnessLimit ==
    /\ vpc = "loaded" /\ files.dir /\ Len(files.listing) = 3
    /\ max_samples = 2 /\ files.listing[3].kind = "ok"
    /\ Len(results) = 2 /\ results[2].sample_id = 1

====
